---- MODULE Spec2Model ----
(***************************************************************************)
(* Model of the server error handler registered by errorHandler            *)
(* (packages/modules/server/src/server/error.ts).  One behaviour of Spec   *)
(* is one invocation of the handler: the caught error, the hook lists and  *)
(* the availability of the root error boundary module are chosen in Init,  *)
(* the behaviour of each hook, of fetchWebpackStats and of the render is   *)
(* chosen when the handler awaits it.                                      *)
(***************************************************************************)
EXTENDS Integers, Sequences, FiniteSets, TLC

\* ------------------------------------------------------------------ bounds

\* The most renderer callbacks registered under RENDERER_CALLBACK.
MaxCallbacks == 2

\* Longest hook list (beforeError / afterError) that is explored.
MaxHooks == 2

\* ------------------------------------------------------- values and inputs

\* An optional numeric field (httpStatus, statusCode) that is not set.
Absent == -1

\* A hook list that is not provided at all (`handlers` is undefined).
NoHandlers == -1

\* HTTP status codes an error may declare.
Statuses == {301, 404, 500, 503}

OptStatus == Statuses \cup {Absent}

\* error.nextUrl of a redirect error.
NextUrl == "/next"

\* The caught error.  The three tagged kinds carry an optional httpStatus;
\* an untagged (Fastify / generic) error carries an optional statusCode and
\* an optional code.
Errors ==
    [tag : {"redirect", "notFound", "http"}, httpStatus : OptStatus,
     statusCode : {Absent}, hasCode : {FALSE}]
    \cup
    [tag : {"generic"}, httpStatus : {Absent},
     statusCode : OptStatus, hasCode : BOOLEAN]

isRedirectFoundError(e) == e.tag = "redirect"

isNotFoundError(e) == e.tag = "notFound"

isHttpError(e) == e.tag = "http"

\* What a hook may resolve to: the nil values, a defined falsy value, and
\* two truthy values.
HookValues == {"undefined", "null", "false", "x", "y"}

\* A hook either resolves to a value or throws.
HookOutcomes == HookValues \cup {"throw"}

\* The contents of the request ({ip, headers['x-request-id'], url}) as they
\* are when the handler is entered ("req0") or after a hook changed them.
Requests == {"req0", "req1"}

\* JavaScript truthiness of a hook value (`if (result)`).
Truthy(v) == v \notin {"undefined", "null", "false"}

\* @tinkoff/utils/is/nil: undefined or null.
isNil(v) == v \in {"undefined", "null"}

\* `x || d` on an optional number: d when x is undefined or 0.
OrDefault(x, d) == IF x = Absent \/ x = 0 THEN d ELSE x

\* `x >= n` on an optional number: undefined >= n is false.
AtLeast(x, n) == x # Absent /\ x >= n

NoCache == "no-store, no-cache, must-revalidate"

VARIABLES
    error, beforeError, afterError, moduleResolvable, request,
    pc, beforeCalls, afterCalls, requestInfo, RootErrorBoundary, httpStatus,
    log, statusCalls, headerCalls, redirectCalls, fetchCalls, renderCalls,
    serializedError, renderError, result, body, trace, invoked, running

\* The client `rendering` function (render/src/client/index.ts): its
\* arguments, the behaviour of the renderer it calls, and its progress.
VARIABLES
    customRender, customRenderThrows, extendRender, useStrictMode,
    rendererCallback, rendererBehaviour,
    renderPc, renderResult, promise, callbackCalls, consoleErrors, noJs

renderVars ==
    <<customRender, customRenderThrows, extendRender, useStrictMode,
      rendererCallback, rendererBehaviour,
      renderPc, renderResult, promise, callbackCalls, consoleErrors, noJs>>

vars ==
    <<error, beforeError, afterError, moduleResolvable, request,
      pc, beforeCalls, afterCalls, requestInfo, RootErrorBoundary, httpStatus,
      log, statusCalls, headerCalls, redirectCalls, fetchCalls, renderCalls,
      serializedError, renderError, result, body, trace, invoked, running,
      renderVars>>

inputs == <<error, beforeError, afterError, moduleResolvable>>

\* ------------------------------------------------- classification (84-137)

\* Faulty variant of NotFoundClass: the default status of the other branches.
NotFoundClassDefault500(e) ==
    [threw |-> FALSE,
     httpStatus |-> OrDefault(e.httpStatus, 500),
     logLevel |-> "info",
     logEvent |-> "not-found-error",
     logMessage |-> "NotFoundError"]

\* isNotFoundError branch (lines 89-95).
NotFoundClass(e) ==
    [threw |-> FALSE,
     httpStatus |-> OrDefault(e.httpStatus, 404),
     logLevel |-> "info",
     logEvent |-> "not-found-error",
     logMessage |-> "NotFoundError"]

\* isHttpError branch (lines 96-112): the level is chosen from the declared
\* error.httpStatus, not from the defaulted httpStatus.
HttpErrorClass(e) ==
    [threw |-> FALSE,
     httpStatus |-> OrDefault(e.httpStatus, 500),
     logLevel |-> IF AtLeast(e.httpStatus, 500) THEN "error" ELSE "info",
     logEvent |-> IF AtLeast(e.httpStatus, 500)
                  THEN "send-server-error" ELSE "http-error",
     logMessage |-> IF AtLeast(e.httpStatus, 500)
                    THEN "expected-server-error-5xx"
                    ELSE "expected-server-error-4xx"]

\* Generic branch (lines 113-137).  The 5xx and 4xx message templates call
\* error.code.toLowerCase(), which throws a TypeError when error.code is
\* not set; the last template does not read error.code.
GenericClass(e) ==
    IF AtLeast(e.statusCode, 500)
    THEN [threw |-> ~e.hasCode,
          httpStatus |-> OrDefault(e.statusCode, 500),
          logLevel |-> "error",
          logEvent |-> "send-server-error",
          logMessage |-> "fastify-5xx"]
    ELSE IF AtLeast(e.statusCode, 400)
    THEN [threw |-> ~e.hasCode,
          httpStatus |-> OrDefault(e.statusCode, 500),
          logLevel |-> "info",
          logEvent |-> "fastify-error-4xx",
          logMessage |-> "fastify-4xx"]
    ELSE [threw |-> FALSE,
          httpStatus |-> OrDefault(e.statusCode, 500),
          logLevel |-> "error",
          logEvent |-> "send-server-error",
          logMessage |-> "unexpected-server-error"]

\* The if / else-if / else cascade of lines 89-137.
Classify(e) ==
    IF isNotFoundError(e) THEN NotFoundClass(e)
    ELSE IF isHttpError(e) THEN HttpErrorClass(e)
    ELSE GenericClass(e)

\* Faulty variant of RedirectStatus: a default of 302.
RedirectStatusDefault302(e) == OrDefault(e.httpStatus, 302)

\* reply.redirect's status argument (line 80).
RedirectStatus(e) == OrDefault(e.httpStatus, 307)

\* The trailing sentence of logMessage (lines 139-144).
BoundaryNote(boundary) ==
    IF boundary # "null" THEN "will-render" ELSE "add-boundary"

\* The record of log.info on the redirect branch (lines 71-77).
RedirectLog(info) ==
    [level |-> "info", event |-> "redirect-found-error", error |-> "error",
     requestInfo |-> info, message |-> "RedirectFoundError", note |-> "none"]

\* The record of log[logLevel] (lines 146-151).
ClassificationLog(c, info, boundary) ==
    [level |-> c.logLevel, event |-> c.logEvent, error |-> "error",
     requestInfo |-> info, message |-> c.logMessage,
     note |-> BoundaryNote(boundary)]

\* Faulty variant of RenderedLog: the event of the catch block.
RenderedLogFailedEvent ==
    [level |-> "info", event |-> "failed-root-error-boundary",
     error |-> "none", requestInfo |-> "none",
     message |-> "Render Root Error Boundary for the client", note |-> "none"]

\* The record of log.info after a successful render (lines 190-193).
RenderedLog ==
    [level |-> "info", event |-> "render-root-error-boundary",
     error |-> "none", requestInfo |-> "none",
     message |-> "Render Root Error Boundary for the client", note |-> "none"]

\* The record of log.warn in the catch block (lines 201-205); failure is
\* the exception the fallback sequence raised.
FailedLog(failure) ==
    [level |-> "warn", event |-> "failed-root-error-boundary",
     error |-> failure, requestInfo |-> "none",
     message |-> "Root Error Boundary rendering failed", note |-> "none"]

\* ------------------------------------------------ fallback markup (163-199)

\* Strings are sequences of characters.  A character outside ASCII is named
\* by its code point.
HeadClose == <<"<", "/", "h", "e", "a", "d", ">">>

ScriptOpen == <<"<", "s", "c", "r", "i", "p", "t", ">">>

ScriptClose == <<"<", "/", "s", "c", "r", "i", "p", "t", ">">>

\* Bytes of one character in UTF-8.
Utf8Width(ch) ==
    CASE ch = "U+00E9" -> 2
      [] ch = "U+20AC" -> 3
      [] ch = "U+1F600" -> 4
      [] OTHER -> 1

\* Faulty variant of byteLength: the number of characters.
stringLength(s) == Len(s)

\* Buffer.byteLength(s, 'utf8') (line 196).
byteLength(s) ==
    LET RECURSIVE Sum(_)
        Sum(i) == IF i = 0 THEN 0 ELSE Utf8Width(s[i]) + Sum(i - 1)
    IN Sum(Len(s))

\* What renderToString(createElement(RootErrorBoundary, ...)) may produce:
\* a page with a head, a page without one, a page with two closing head tags.
Markups ==
    { <<"<", "h", "e", "a", "d", ">">> \o HeadClose \o <<"U+00E9">>,
      <<"o", "k", "U+1F600">>,
      HeadClose \o <<"x">> \o HeadClose }

\* The text between the script tags (lines 178-180), whose content comes
\* from safeStringify(url) and safeStringify(serializedError).
ScriptTexts == { <<"U+20AC", "e">> }

\* extractor.getStyleTags() / extractor.getScriptTags(): possibly empty.
ExtractorTags == { <<>>, <<"<", "l", ">">> }

\* [...].filter(Boolean).join('\n') (lines 176-187).
RECURSIVE JoinLines(_)
JoinLines(parts) ==
    IF parts = <<>> THEN <<>>
    ELSE IF Head(parts) = <<>> THEN JoinLines(Tail(parts))
    ELSE LET rest == JoinLines(Tail(parts))
         IN IF rest = <<>> THEN Head(parts)
            ELSE Head(parts) \o <<"LF">> \o rest

\* String.prototype.replace with a string pattern: the first occurrence only.
ReplaceFirst(s, pat, rep) ==
    LET hits == { i \in 1..(Len(s) - Len(pat) + 1) :
                    SubSeq(s, i, i + Len(pat) - 1) = pat }
    IN IF hits = {} THEN s
       ELSE LET i == CHOOSE h \in hits : \A k \in hits : h <= k
            IN SubSeq(s, 1, i - 1) \o rep \o SubSeq(s, i + Len(pat), Len(s))

\* The body of lines 172-188.
FallbackBody(markup, scriptText, styleTags, scriptTags) ==
    ReplaceFirst(markup, HeadClose,
        JoinLines(<<ScriptOpen \o scriptText \o ScriptClose,
                    styleTags, scriptTags, HeadClose>>))

\* The three reply.header calls of lines 195-197.
FallbackHeaders(b) ==
    << [name |-> "Content-Type", value |-> "text/html; charset=utf-8"],
       [name |-> "Content-Length", value |-> byteLength(b)],
       [name |-> "Cache-Control", value |-> NoCache] >>

\* The reply.header call of line 79.
RedirectHeaders == << [name |-> "cache-control", value |-> NoCache] >>

\* ------------------------------------------------------------- outcomes

Pending == [kind |-> "pending", value |-> "none"]

Returned(v) == [kind |-> "returned", value |-> v]

Thrown(v) == [kind |-> "thrown", value |-> v]

\* Faulty variant of Rethrow: the handler resolves with nothing.
RethrowSwallowed == Returned("undefined")

\* `throw error` (line 209).
Rethrow == Thrown("error")

\* The handler's end on the redirect branch: a bare `return` (line 81).
RedirectReturn == Returned("undefined")

\* `return body` (line 199).
BodyReturn == Returned("body")

\* Whether runHandlers returns this hook's result (line 40).
ChainStops(v) == Truthy(v)

\* Whether the handler returns the chain's result (lines 49 and 155).
HandlerReturns(v) == ~isNil(v)

\* Number of hooks runHandlers iterates over (lines 36-37).
HookCount(handlers) == IF handlers = NoHandlers THEN 0 ELSE handlers

\* A hook of a chain: its position in the list it was registered in.
Hook(chain, k) == [chain |-> chain, hook |-> k]

\* The handler the for-of loop of runHandlers takes next (line 37).
NextHandler(calls) == Len(calls) + 1

\* Faulty variant of LoopCalls: the hooks are started without awaiting.
LoopCallsEagerly(calls, handlers) == Len(calls) < HookCount(handlers)

\* Whether the loop of runHandlers calls a handler now (lines 37-38): there
\* is one left, and the `await` of the one before it has completed.
LoopCalls(calls, handlers) ==
    running = {} /\ Len(calls) < HookCount(handlers)

\* Faulty variant of HookThrown: the original error in place of the hook's.
HookThrownAsError == Thrown("error")

\* A handler that rejects: the `await` of line 38 throws its exception out
\* of runHandlers and out of the error handler.
HookThrown == Thrown("hookException")

\* ----------------------------------------------------------------- Init

\* `rendering` is not being called.
RenderIdle ==
    /\ customRender = FALSE
    /\ customRenderThrows = FALSE
    /\ extendRender = FALSE
    /\ useStrictMode = FALSE
    /\ rendererCallback = [defined |-> FALSE, throws |-> <<>>]
    /\ rendererBehaviour = "callback"
    /\ renderPc = "idle"
    /\ renderResult = <<>>
    /\ promise = [state |-> "pending", reason |-> "none"]
    /\ callbackCalls = <<>>
    /\ consoleErrors = 0
    /\ noJs = TRUE

\* Faulty variant of RequestInfoSnapshot: the request as it was when the
\* handler was entered.
RequestInfoAtEntry == "req0"

\* `const requestInfo = { ip: request.ip, requestId: ..., url: request.url }`
\* (lines 53-57): the fields are read from the request as it is when the
\* statement runs.
RequestInfoSnapshot == request

\* Faulty variant of AttemptsFallback: the fallback is attempted regardless.
AttemptsFallbackAlways(boundary) == TRUE

\* `if (RootErrorBoundary !== null)` (line 161).
AttemptsFallback(boundary) == boundary # "null"

\* Faulty variant of StatusCalled: the status is set to a fixed 500.
StatusCalledWith500(calls, status) == Append(calls, 500)

\* `reply.status(httpStatus)` (line 159).
StatusCalled(calls, status) == Append(calls, status)

Init ==
    /\ error \in Errors
    /\ beforeError \in {NoHandlers} \cup (0..MaxHooks)
    /\ afterError \in {NoHandlers} \cup (0..MaxHooks)
    /\ moduleResolvable \in BOOLEAN
    /\ request = "req0"
    /\ pc = "before"
    /\ beforeCalls = <<>>
    /\ afterCalls = <<>>
    /\ requestInfo = "none"
    /\ RootErrorBoundary = "null"
    /\ httpStatus = Absent
    /\ log = <<>>
    /\ statusCalls = <<>>
    /\ headerCalls = <<>>
    /\ redirectCalls = <<>>
    /\ fetchCalls = 0
    /\ renderCalls = 0
    /\ serializedError = [status |-> Absent]
    /\ renderError = "none"
    /\ result = Pending
    /\ body = <<>>
    /\ trace = <<>>
    /\ invoked = <<>>
    /\ running = {}
    /\ RenderIdle

\* -------------------------------------------------------------- actions

\* runHandlers(beforeError) calls its next handler (line 38).
CallBeforeHandler ==
    /\ pc = "before"
    /\ LoopCalls(beforeCalls, beforeError)
    /\ invoked' = Append(invoked, Hook("before", NextHandler(beforeCalls)))
    /\ running' = running \cup {Hook("before", NextHandler(beforeCalls))}
    /\ trace' = Append(trace, "before-hook")
    /\ UNCHANGED <<renderVars, inputs, request, pc, beforeCalls, afterCalls, requestInfo,
                   RootErrorBoundary, httpStatus, log, statusCalls,
                   headerCalls, redirectCalls, fetchCalls, renderCalls,
                   serializedError, renderError, result, body>>

\* The `await` of a before-handler completes (lines 38-43) and, when the
\* chain returns, the check of lines 47-51.  The hook may have changed the
\* request.
InvokeBeforeHandler ==
    /\ pc = "before"
    /\ \E h \in running, o \in HookOutcomes, rq \in Requests :
        /\ h.chain = "before"
        /\ running' = running \ {h}
        /\ beforeCalls' = Append(beforeCalls, o)
        /\ request' = rq
        /\ IF o = "throw"
           THEN /\ result' = HookThrown
                /\ pc' = "done"
                /\ trace' = Append(trace, "throw")
           ELSE IF ChainStops(o) /\ HandlerReturns(o)
           THEN /\ result' = Returned(o)
                /\ pc' = "done"
                /\ trace' = Append(trace, "return")
           ELSE /\ result' = result
                /\ pc' = IF ChainStops(o) THEN "entry" ELSE "before"
                /\ trace' = trace
    /\ UNCHANGED <<renderVars, inputs, afterCalls, requestInfo, RootErrorBoundary,
                   httpStatus, log, statusCalls, headerCalls, redirectCalls,
                   fetchCalls, renderCalls, serializedError, renderError,
                   body, invoked>>

\* runHandlers(beforeError) falls off its loop, or `handlers` is not set
\* (lines 36-45): the chain yields undefined and line 49 lets the handler go on.
BeforeChainExhausted ==
    /\ pc = "before"
    /\ running = {}
    /\ Len(beforeCalls) = HookCount(beforeError)
    /\ IF HandlerReturns("undefined")
       THEN /\ result' = Returned("undefined")
            /\ pc' = "done"
            /\ trace' = Append(trace, "return")
       ELSE /\ result' = result
            /\ pc' = "entry"
            /\ trace' = trace
    /\ UNCHANGED <<renderVars, inputs, request, beforeCalls, afterCalls, requestInfo,
                   RootErrorBoundary, httpStatus, log, statusCalls,
                   headerCalls, redirectCalls, fetchCalls, renderCalls,
                   serializedError, renderError, body, invoked, running>>

\* Lines 53-151: the requestInfo snapshot, the resolution of the root error
\* boundary, then the redirect branch or classification and the log record.
ClassifyAndLog ==
    /\ pc = "entry"
    /\ requestInfo' = RequestInfoSnapshot
    /\ RootErrorBoundary' = IF moduleResolvable THEN "component" ELSE "null"
    /\ IF isRedirectFoundError(error)
       THEN /\ log' = Append(log, RedirectLog(requestInfo'))
            /\ headerCalls' = headerCalls \o RedirectHeaders
            /\ redirectCalls' =
                   Append(redirectCalls,
                          [code |-> RedirectStatus(error), url |-> NextUrl])
            /\ result' = RedirectReturn
            /\ pc' = "done"
            /\ httpStatus' = httpStatus
            /\ trace' = trace \o <<"log", "header", "redirect", "return">>
       ELSE LET c == Classify(error)
            IN /\ httpStatus' = c.httpStatus
               /\ UNCHANGED <<headerCalls, redirectCalls>>
               /\ IF c.threw
                  THEN /\ result' = Thrown("TypeError")
                       /\ pc' = "done"
                       /\ log' = log
                       /\ trace' = Append(trace, "throw")
                  ELSE /\ result' = result
                       /\ pc' = "after"
                       /\ log' = Append(log,
                              ClassificationLog(c, requestInfo',
                                                RootErrorBoundary'))
                       /\ trace' = Append(trace, "log")
    /\ UNCHANGED <<renderVars, inputs, request, beforeCalls, afterCalls, statusCalls,
                   fetchCalls, renderCalls, serializedError, renderError,
                   body, invoked, running>>

\* runHandlers(afterError) calls its next handler (line 38).
CallAfterHandler ==
    /\ pc = "after"
    /\ LoopCalls(afterCalls, afterError)
    /\ invoked' = Append(invoked, Hook("after", NextHandler(afterCalls)))
    /\ running' = running \cup {Hook("after", NextHandler(afterCalls))}
    /\ trace' = Append(trace, "after-hook")
    /\ UNCHANGED <<renderVars, inputs, request, pc, beforeCalls, afterCalls, requestInfo,
                   RootErrorBoundary, httpStatus, log, statusCalls,
                   headerCalls, redirectCalls, fetchCalls, renderCalls,
                   serializedError, renderError, result, body>>

\* The `await` of an after-handler completes (lines 38-43) and, when the
\* chain returns, the check of lines 153-157.
InvokeAfterHandler ==
    /\ pc = "after"
    /\ \E h \in running, o \in HookOutcomes, rq \in Requests :
        /\ h.chain = "after"
        /\ running' = running \ {h}
        /\ afterCalls' = Append(afterCalls, o)
        /\ request' = rq
        /\ IF o = "throw"
           THEN /\ result' = HookThrown
                /\ pc' = "done"
                /\ trace' = Append(trace, "throw")
           ELSE IF ChainStops(o) /\ HandlerReturns(o)
           THEN /\ result' = Returned(o)
                /\ pc' = "done"
                /\ trace' = Append(trace, "return")
           ELSE /\ result' = result
                /\ pc' = IF ChainStops(o) THEN "respond" ELSE "after"
                /\ trace' = trace
    /\ UNCHANGED <<renderVars, inputs, beforeCalls, requestInfo, RootErrorBoundary,
                   httpStatus, log, statusCalls, headerCalls, redirectCalls,
                   fetchCalls, renderCalls, serializedError, renderError,
                   body, invoked>>

\* runHandlers(afterError) yields undefined (lines 36-45, 155).
AfterChainExhausted ==
    /\ pc = "after"
    /\ running = {}
    /\ Len(afterCalls) = HookCount(afterError)
    /\ IF HandlerReturns("undefined")
       THEN /\ result' = Returned("undefined")
            /\ pc' = "done"
            /\ trace' = Append(trace, "return")
       ELSE /\ result' = result
            /\ pc' = "respond"
            /\ trace' = trace
    /\ UNCHANGED <<renderVars, inputs, request, beforeCalls, afterCalls, requestInfo,
                   RootErrorBoundary, httpStatus, log, statusCalls,
                   headerCalls, redirectCalls, fetchCalls, renderCalls,
                   serializedError, renderError, body, invoked, running>>

\* reply.status(httpStatus) (line 159), then the test of line 161: without
\* a root error boundary the handler goes straight to `throw error`.
ReplyStatus ==
    /\ pc = "respond"
    /\ statusCalls' = StatusCalled(statusCalls, httpStatus)
    /\ IF AttemptsFallback(RootErrorBoundary)
       THEN /\ pc' = "fetch"
            /\ result' = result
            /\ trace' = Append(trace, "status")
       ELSE /\ pc' = "done"
            /\ result' = Rethrow
            /\ trace' = trace \o <<"status", "throw">>
    /\ UNCHANGED <<renderVars, inputs, request, beforeCalls, afterCalls, requestInfo,
                   RootErrorBoundary, httpStatus, log, headerCalls,
                   redirectCalls, fetchCalls, renderCalls, serializedError,
                   renderError, body, invoked, running>>

\* Faulty variant of FallbackFailed: the catch block lets the failure through.
FallbackFailedPropagates(failure) ==
    /\ renderError' = failure
    /\ log' = Append(log, FailedLog(failure))
    /\ result' = Thrown(failure)
    /\ pc' = "done"
    /\ UNCHANGED <<headerCalls, body>>

\* The catch block of lines 200-206 followed by `throw error` (line 209).
FallbackFailed(failure) ==
    /\ renderError' = failure
    /\ log' = Append(log, FailedLog(failure))
    /\ result' = Rethrow
    /\ pc' = "done"
    /\ UNCHANGED <<headerCalls, body>>

\* `await fetchWebpackStats()` (line 163): it resolves or it rejects.
FetchWebpackStats ==
    /\ pc = "fetch"
    /\ fetchCalls' = fetchCalls + 1
    /\ \E ok \in BOOLEAN :
        IF ok
        THEN /\ pc' = "render"
             /\ trace' = Append(trace, "fetch")
             /\ UNCHANGED <<log, result, headerCalls, body, renderError>>
        ELSE /\ FallbackFailed("fetchFailure")
             /\ trace' = trace \o <<"fetch", "warn", "throw">>
    /\ UNCHANGED <<renderVars, inputs, request, beforeCalls, afterCalls, requestInfo,
                   RootErrorBoundary, httpStatus, statusCalls, redirectCalls,
                   renderCalls, serializedError, invoked, running>>

\* Faulty variant of RenderedSteps: the headers are set before the render.
RenderedStepsHeadersFirst ==
    <<"header", "header", "header", "render", "rendered-log", "return">>

\* The effects of a successful render, in the order of lines 172-199:
\* renderToString, log.info, three reply.header calls, `return body`.
RenderedSteps ==
    <<"render", "rendered-log", "header", "header", "header", "return">>

\* Lines 164-199: the ChunkExtractor is built, the boundary is rendered and
\* the tags injected; on success the record, the headers and the body.
RenderRootErrorBoundary ==
    /\ pc = "render"
    /\ \E outcome \in {"extractorFailure", "renderFailure", "rendered"} :
        IF outcome = "extractorFailure"
        THEN /\ FallbackFailed(outcome)
             /\ renderCalls' = renderCalls
             /\ serializedError' = serializedError
             /\ trace' = trace \o <<"warn", "throw">>
        ELSE IF outcome = "renderFailure"
        THEN /\ FallbackFailed(outcome)
             /\ renderCalls' = renderCalls + 1
             /\ serializedError' = [status |-> httpStatus]
             /\ trace' = trace \o <<"render", "warn", "throw">>
        ELSE \E markup \in Markups, text \in ScriptTexts,
                styles \in ExtractorTags, scripts \in ExtractorTags :
             /\ body' = FallbackBody(markup, text, styles, scripts)
             /\ renderCalls' = renderCalls + 1
             /\ serializedError' = [status |-> httpStatus]
             /\ renderError' = renderError
             /\ log' = Append(log, RenderedLog)
             /\ headerCalls' = headerCalls \o FallbackHeaders(body')
             /\ result' = BodyReturn
             /\ pc' = "done"
             /\ trace' = trace \o RenderedSteps
    /\ UNCHANGED <<renderVars, inputs, request, beforeCalls, afterCalls, requestInfo,
                   RootErrorBoundary, httpStatus, statusCalls, redirectCalls,
                   fetchCalls, invoked, running>>

Next ==
    \/ CallBeforeHandler
    \/ InvokeBeforeHandler
    \/ BeforeChainExhausted
    \/ ClassifyAndLog
    \/ CallAfterHandler
    \/ InvokeAfterHandler
    \/ AfterChainExhausted
    \/ ReplyStatus
    \/ FetchWebpackStats
    \/ RenderRootErrorBoundary

Spec == Init /\ [][Next]_vars

\* ------------------------------------- client rendering (client/index.ts)

\* What the renderer handed to `rendering` can do with the completion
\* callback: call it before it returns, leave it to be called later, throw,
\* call it and then throw, or leave it to be called later and throw.
RendererBehaviours ==
    {"callback", "callbackLater", "throw", "callbackThenThrow",
     "scheduleThenThrow"}

RendererThrows(behaviour) ==
    behaviour \in {"throw", "callbackThenThrow", "scheduleThenThrow"}

\* rendererCallback: undefined, or a list of callbacks, each of which
\* returns or throws.
RendererCallbacks ==
    {[defined |-> FALSE, throws |-> <<>>]}
    \cup { [defined |-> TRUE, throws |-> t] :
             t \in UNION { [1..n -> BOOLEAN] : n \in 0..MaxCallbacks } }

\* The handler is not running.
ServerIdle ==
    /\ error = CHOOSE e \in Errors : TRUE
    /\ beforeError = NoHandlers
    /\ afterError = NoHandlers
    /\ moduleResolvable = FALSE
    /\ request = "req0"
    /\ pc = "idle"
    /\ beforeCalls = <<>>
    /\ afterCalls = <<>>
    /\ requestInfo = "none"
    /\ RootErrorBoundary = "null"
    /\ httpStatus = Absent
    /\ log = <<>>
    /\ statusCalls = <<>>
    /\ headerCalls = <<>>
    /\ redirectCalls = <<>>
    /\ fetchCalls = 0
    /\ renderCalls = 0
    /\ serializedError = [status |-> Absent]
    /\ renderError = "none"
    /\ result = Pending
    /\ body = <<>>
    /\ trace = <<>>
    /\ invoked = <<>>
    /\ running = {}

serverVars ==
    <<inputs, request, pc, beforeCalls, afterCalls, requestInfo,
      RootErrorBoundary, httpStatus, log, statusCalls, headerCalls,
      redirectCalls, fetchCalls, renderCalls, serializedError, renderError,
      result, body, trace, invoked, running>>

renderInputs ==
    <<customRender, customRenderThrows, extendRender, useStrictMode,
      rendererCallback, rendererBehaviour>>

\* `rendering(...)` is called: the promise is created, its executor has not
\* run yet.
RenderInit ==
    /\ ServerIdle
    /\ customRender \in BOOLEAN
    /\ customRenderThrows \in BOOLEAN
    /\ customRenderThrows => customRender
    /\ extendRender \in BOOLEAN
    /\ useStrictMode \in BOOLEAN
    /\ rendererCallback \in RendererCallbacks
    /\ rendererBehaviour \in RendererBehaviours
    /\ renderPc = "start"
    /\ renderResult = <<>>
    /\ promise = [state |-> "pending", reason |-> "none"]
    /\ callbackCalls = <<>>
    /\ consoleErrors = 0
    /\ noJs = TRUE

\* resolve() and reject(e) of the promise: the first of them settles it,
\* a later one has no effect.
Resolve(p) ==
    IF p.state = "pending" THEN [state |-> "resolved", reason |-> "none"]
    ELSE p

Reject(p, e) ==
    IF p.state = "pending" THEN [state |-> "rejected", reason |-> e]
    ELSE p

\* The calls `rendererCallback?.forEach((cb) => { try { cb(renderErr) } ... })`
\* makes (lines 52-60): every callback of the list, in order, with renderErr;
\* nothing when the list is undefined.
CallbacksWith(renderErr) ==
    IF rendererCallback.defined
    THEN [i \in 1..Len(rendererCallback.throws) |->
              [cb |-> i, arg |-> renderErr]]
    ELSE <<>>

\* The callbacks whose exception the catch of line 56 hands to console.error.
ThrowingCallbacks ==
    Cardinality({ i \in DOMAIN rendererCallback.throws :
                    rendererCallback.throws[i] })

\* executeRendererCallbacks(renderErr) (lines 52-60) applied to the
\* observable state st = [calls, errors, promise, noJs].
executeRendererCallbacks(st, renderErr) ==
    [st EXCEPT !.calls = st.calls \o CallbacksWith(renderErr),
               !.errors = st.errors + ThrowingCallbacks]

\* The completion callback (lines 61-66): the no-js class is removed, the
\* renderer callbacks are run with no argument, the promise is resolved.
callback(st) ==
    LET ran == executeRendererCallbacks([st EXCEPT !.noJs = FALSE], "none")
    IN [ran EXCEPT !.promise = Resolve(ran.promise)]

\* The catch block around renderer(params) (lines 71-74).
rendererCatch(st) ==
    LET ran == executeRendererCallbacks(st, "renderErr")
    IN [ran EXCEPT !.promise = Reject(ran.promise, "renderErr")]

Observable ==
    [calls |-> callbackCalls, errors |-> consoleErrors,
     promise |-> promise, noJs |-> noJs]

Becomes(st) ==
    /\ callbackCalls' = st.calls
    /\ consoleErrors' = st.errors
    /\ promise' = st.promise
    /\ noJs' = st.noJs

\* The executor up to its first call of foreign code (lines 34-49):
\* renderReact, every extendRender, then either customRender is due or the
\* element is wrapped in StrictMode and the renderer is due.
StartRendering ==
    /\ renderPc = "start"
    /\ LET element == <<"app">>
           extended == IF extendRender THEN Append(element, "extended")
                       ELSE element
       IN IF customRender
          THEN /\ renderResult' = extended
               /\ renderPc' = "customRender"
          ELSE /\ renderResult' = IF useStrictMode
                                  THEN Append(extended, "StrictMode")
                                  ELSE extended
               /\ renderPc' = "renderer"
    /\ UNCHANGED <<serverVars, renderInputs, promise, callbackCalls,
                   consoleErrors, noJs>>

\* `return customRender(renderResult)` (lines 43-45): the executor ends
\* here.  Neither resolve nor reject is called; an exception that leaves
\* the executor rejects the promise.
CustomRender ==
    /\ renderPc = "customRender"
    /\ promise' = IF customRenderThrows
                  THEN Reject(promise, "customRenderErr")
                  ELSE promise
    /\ renderPc' = "finished"
    /\ UNCHANGED <<serverVars, renderInputs, renderResult, callbackCalls,
                   consoleErrors, noJs>>

\* `try { renderer(params) } catch (e) { ... }` (lines 69-74).
Renderer ==
    /\ renderPc = "renderer"
    /\ IF rendererBehaviour = "callback"
       THEN /\ Becomes(callback(Observable))
            /\ renderPc' = "finished"
       ELSE IF rendererBehaviour = "callbackLater"
       THEN /\ Becomes(Observable)
            /\ renderPc' = "scheduled"
       ELSE IF rendererBehaviour = "throw"
       THEN /\ Becomes(rendererCatch(Observable))
            /\ renderPc' = "finished"
       ELSE IF rendererBehaviour = "callbackThenThrow"
       THEN /\ Becomes(rendererCatch(callback(Observable)))
            /\ renderPc' = "finished"
       ELSE /\ Becomes(rendererCatch(Observable))
            /\ renderPc' = "scheduled"
    /\ UNCHANGED <<serverVars, renderInputs, renderResult>>

\* The renderer calls the completion callback after it has returned
\* (lines 61-66).
CompletionCallback ==
    /\ renderPc = "scheduled"
    /\ Becomes(callback(Observable))
    /\ renderPc' = "finished"
    /\ UNCHANGED <<serverVars, renderInputs, renderResult>>

RenderNext ==
    \/ StartRendering
    \/ CustomRender
    \/ Renderer
    \/ CompletionCallback

RenderSpec == RenderInit /\ [][RenderNext]_vars

\* ------------------------------------------------------------ properties

Last(s) == s[Len(s)]

\* The entries of the trace that are among the given labels, in order.
Only(labels) == SelectSeq(trace, LAMBDA x : x \in labels)

\* No hook of this chain resolved to a defined (non-nil) value.
NoDefinedResult(calls) ==
    \A i \in DOMAIN calls : calls[i] = "throw" \/ isNil(calls[i])

\* No hook of this chain threw.
NoThrow(calls) == \A i \in DOMAIN calls : calls[i] # "throw"

\* The first hook of the chain that resolved to a defined value, 0 if none.
FirstDefined(calls) ==
    LET hits == { i \in DOMAIN calls : calls[i] # "throw" /\ ~isNil(calls[i]) }
    IN IF hits = {} THEN 0
       ELSE CHOOSE i \in hits : \A k \in hits : i <= k

HookResultReturned ==
    /\ result.kind = "returned"
    /\ result.value \in HookValues
    /\ ~isNil(result.value)
    /\ \/ beforeCalls # <<>> /\ Last(beforeCalls) = result.value
       \/ afterCalls # <<>> /\ Last(afterCalls) = result.value

RedirectIssued == redirectCalls # <<>>

BodyReturned == result.kind = "returned" /\ result.value = "body"

ProducedResponse == HookResultReturned \/ RedirectIssued \/ BodyReturned

EndedByThrowing == result.kind = "thrown"

\* C1: every invocation ends in exactly one of two ways, a response (a
\* hook's result returned, reply.redirect issued, or the fallback body
\* returned) or a throw; never both, never neither, and neither of them
\* before the handler has ended.
C1_ExactlyOneOutcome ==
    IF pc = "done"
    THEN ProducedResponse # EndedByThrowing
    ELSE ~ProducedResponse /\ ~EndedByThrowing

C1_Witness ==
    /\ pc = "done"
    /\ EndedByThrowing
    /\ ~ProducedResponse
    /\ statusCalls # <<>>
    /\ afterCalls # <<>>

\* What the redirect branch does and what it leaves undone.
RedirectEffects ==
    /\ redirectCalls =
           << [code |-> IF error.httpStatus = Absent
                        THEN 307 ELSE error.httpStatus,
               url |-> NextUrl] >>
    /\ Len(headerCalls) = 1
    /\ headerCalls[1].name = "cache-control"
    /\ headerCalls[1].value = "no-store, no-cache, must-revalidate"
    /\ Len(log) = 1
    /\ log[1].level = "info"
    /\ log[1].event = "redirect-found-error"
    /\ Only({"log", "header", "redirect"}) = <<"log", "header", "redirect">>
    /\ afterCalls = <<>>
    /\ statusCalls = <<>>
    /\ fetchCalls = 0
    /\ renderCalls = 0

\* C2, as stated: for every redirect error, whatever hooks are registered,
\* the handler logs 'redirect-found-error' at info, sets cache-control and
\* calls reply.redirect(declared status or 307, nextUrl), and does nothing
\* else (no classification record, after-hook, reply.status or fallback).
C2_RedirectWhateverHooks ==
    (pc = "done" /\ isRedirectFoundError(error)) => RedirectEffects

\* C2, amended: the same, for every redirect error whose before-hooks
\* neither throw nor return a defined (non-nil) value.
C2_RedirectAfterBeforeChain ==
    (/\ pc = "done"
     /\ isRedirectFoundError(error)
     /\ NoThrow(beforeCalls)
     /\ NoDefinedResult(beforeCalls)) => RedirectEffects

C2_Witness ==
    /\ pc = "done"
    /\ isRedirectFoundError(error)
    /\ error.httpStatus = Absent
    /\ beforeCalls = <<"undefined", "null">>
    /\ redirectCalls # <<>>

\* C3: the first before-hook that returns a defined (non-nil) value, falsy
\* ones included, ends the handler: it is the last before-hook invoked, the
\* handler returns exactly its value, and nothing has been logged, no
\* after-hook invoked, no status set and no fallback attempted.
C3_FirstDefinedBeforeResultReturned ==
    LET i == FirstDefined(beforeCalls)
    IN i # 0 =>
        /\ Len(beforeCalls) = i
        /\ pc = "done"
        /\ result = Returned(beforeCalls[i])
        /\ log = <<>>
        /\ afterCalls = <<>>
        /\ statusCalls = <<>>
        /\ fetchCalls = 0
        /\ renderCalls = 0

\* C4: when no before-hook returned a defined value, the error is not a
\* redirect and some after-hook returned a defined value, then once the
\* handler has returned, exactly one log record has been emitted, neither
\* fetchWebpackStats nor the render has been invoked, and the value
\* returned is that of the first after-hook with a defined result.
C4_FirstDefinedAfterResultReturned ==
    LET i == FirstDefined(afterCalls)
    IN (/\ pc = "done"
        /\ result.kind = "returned"
        /\ ~isRedirectFoundError(error)
        /\ NoDefinedResult(beforeCalls)
        /\ i # 0) =>
        /\ Len(log) = 1
        /\ fetchCalls = 0
        /\ renderCalls = 0
        /\ result.value = afterCalls[i]

\* The fallback render came back with markup: rendering succeeded.
Rendered == pc = "done" /\ renderCalls = 1 /\ renderError = "none"

\* The UTF-8 size of a string, counted as one byte per character plus the
\* extra bytes of each character outside ASCII.
Utf8Size(s) ==
    Len(s)
    + Cardinality({ i \in DOMAIN s : s[i] = "U+00E9" })
    + 2 * Cardinality({ i \in DOMAIN s : s[i] = "U+20AC" })
    + 3 * Cardinality({ i \in DOMAIN s : s[i] = "U+1F600" })

\* C5: when a step of the fallback sequence fails (the manifest fetch, the
\* extractor, the render), the handler ends by throwing the original error;
\* exactly one warn record, carrying the failure, was logged just before the
\* throw; no body is returned and no header is set.
C5_FallbackFailureContained ==
    renderError # "none" =>
        /\ RootErrorBoundary # "null"
        /\ pc = "done"
        /\ result = Thrown("error")
        /\ Cardinality({ i \in DOMAIN log : log[i].level = "warn" }) = 1
        /\ Last(log).level = "warn"
        /\ Last(log).error = renderError
        /\ Len(trace) >= 2
        /\ SubSeq(trace, Len(trace) - 1, Len(trace)) = <<"warn", "throw">>
        /\ body = <<>>
        /\ headerCalls = <<>>

C5_Witness ==
    /\ pc = "done"
    /\ renderError = "renderFailure"
    /\ renderCalls = 1
    /\ result.kind = "thrown"

\* C6: when the fallback render succeeds, the handler returns the markup;
\* reply.status was called once, before the headers, with the classified
\* httpStatus, which is also serializedError.status; and the three headers
\* are Content-Type 'text/html; charset=utf-8', Content-Length the UTF-8
\* byte length of the returned body, and Cache-Control no-store.
C6_FallbackResponse ==
    Rendered =>
        /\ result = Returned("body")
        /\ statusCalls = <<Classify(error).httpStatus>>
        /\ serializedError.status = statusCalls[1]
        /\ Only({"status", "header", "return"}) =
               <<"status", "header", "header", "header", "return">>
        /\ Len(headerCalls) = 3
        /\ headerCalls[1].name = "Content-Type"
        /\ headerCalls[1].value = "text/html; charset=utf-8"
        /\ headerCalls[2].name = "Content-Length"
        /\ headerCalls[2].value = Utf8Size(body)
        /\ headerCalls[3].name = "Cache-Control"
        /\ headerCalls[3].value = "no-store, no-cache, must-revalidate"

C6_Witness ==
    /\ Rendered
    /\ statusCalls = <<503>>
    /\ \E i \in DOMAIN body : body[i] = "U+1F600"
    /\ Utf8Size(body) > Len(body)

\* C7: for a domain HTTP error the classified httpStatus is the declared
\* status, or 500 when none is declared, and the record is logged at error
\* with 'send-server-error' exactly when that httpStatus is >= 500, at info
\* with 'http-error' otherwise.
C7_HttpErrorLevelFollowsStatus ==
    (isHttpError(error) /\ requestInfo # "none") =>
        LET st == IF error.httpStatus = Absent THEN 500 ELSE error.httpStatus
        IN /\ Len(log) >= 1
           /\ httpStatus = st
           /\ log[1].level = IF st >= 500 THEN "error" ELSE "info"
           /\ log[1].event =
                  IF st >= 500 THEN "send-server-error" ELSE "http-error"

\* C8: for a generic error the classified httpStatus is statusCode, or 500
\* when it is absent, and the record is logged at info exactly when
\* 400 <= statusCode < 500, at error with 'send-server-error' otherwise.
C8_GenericErrorClassified ==
    (error.tag = "generic" /\ requestInfo # "none") =>
        LET st == IF error.statusCode = Absent THEN 500 ELSE error.statusCode
            is4xx == error.statusCode # Absent
                     /\ error.statusCode >= 400 /\ error.statusCode < 500
        IN /\ Len(log) >= 1
           /\ httpStatus = st
           /\ log[1].level = IF is4xx THEN "info" ELSE "error"
           /\ ~is4xx => log[1].event = "send-server-error"

\* What the handler does with a not-found error when no boundary exists.
NotFoundRethrown ==
    /\ Len(log) = 1
    /\ log[1].level = "info"
    /\ log[1].event = "not-found-error"
    /\ statusCalls =
           <<IF error.httpStatus = Absent THEN 404 ELSE error.httpStatus>>
    /\ result = Thrown("error")
    /\ Only({"log", "status", "throw"}) = <<"log", "status", "throw">>
    /\ body = <<>>
    /\ headerCalls = <<>>
    /\ fetchCalls = 0

\* C9, as stated: for a not-found error, when no hook short-circuits and no
\* fallback component is available, the handler logs one info record
\* 'not-found-error', then sets the status to the declared httpStatus or
\* 404, then throws the original error: no body, no header, no fetch.
C9_NotFoundNoShortCircuit ==
    (/\ pc = "done"
     /\ isNotFoundError(error)
     /\ ~moduleResolvable
     /\ NoDefinedResult(beforeCalls)
     /\ NoDefinedResult(afterCalls)) => NotFoundRethrown

\* C9, amended: the same, when no hook short-circuits and no hook throws.
C9_NotFoundHooksPass ==
    (/\ pc = "done"
     /\ isNotFoundError(error)
     /\ ~moduleResolvable
     /\ NoDefinedResult(beforeCalls)
     /\ NoDefinedResult(afterCalls)
     /\ NoThrow(beforeCalls)
     /\ NoThrow(afterCalls)) => NotFoundRethrown

C9_Witness ==
    /\ pc = "done"
    /\ isNotFoundError(error)
    /\ error.httpStatus = Absent
    /\ ~moduleResolvable
    /\ beforeCalls = <<"undefined">>
    /\ afterCalls = <<"null">>
    /\ statusCalls = <<404>>
    /\ result.kind = "thrown"

\* The records of the fallback render and of a generic 4xx error carry
\* these three events, in this order of arguments.
EventsAre(generic4xx, rendered, failed) ==
    /\ (/\ error.tag = "generic"
        /\ AtLeast(error.statusCode, 400)
        /\ error.statusCode < 500
        /\ log # <<>>) => log[1].event = generic4xx
    /\ Rendered => Last(log).event = rendered
    /\ renderError # "none" => Last(log).event = failed

InvokedOf(chain) ==
    SelectSeq(invoked, LAMBDA h : h.chain = chain)

\* Nothing of the fallback stage has happened.
NoFallback ==
    /\ fetchCalls = 0
    /\ renderCalls = 0
    /\ headerCalls = <<>>
    /\ body = <<>>

\* C11: a hook that throws ends the handler, which throws the hook's own
\* exception.  After a throwing before-hook no other hook is invoked, nothing
\* is logged, no status is set and no fallback is attempted; after a throwing
\* after-hook no other after-hook is invoked, no status is set and no
\* fallback is attempted, and exactly one log record, the classification
\* record, has been emitted.
C11_ThrowingHookEndsHandler ==
    /\ \A i \in DOMAIN beforeCalls :
           beforeCalls[i] = "throw" =>
               /\ pc = "done"
               /\ result = Thrown("hookException")
               /\ Len(beforeCalls) = i
               /\ Len(invoked) = i
               /\ log = <<>>
               /\ afterCalls = <<>>
               /\ statusCalls = <<>>
               /\ NoFallback
    /\ \A i \in DOMAIN afterCalls :
           afterCalls[i] = "throw" =>
               /\ pc = "done"
               /\ result = Thrown("hookException")
               /\ Len(afterCalls) = i
               /\ Len(InvokedOf("after")) = i
               /\ Len(log) = 1
               /\ log[1].event = Classify(error).logEvent
               /\ statusCalls = <<>>
               /\ NoFallback

C11_Witness ==
    /\ pc = "done"
    /\ beforeCalls = <<"false">>
    /\ afterCalls = <<"null", "throw">>
    /\ afterError = 2
    /\ moduleResolvable
    /\ result.kind = "thrown"

\* One chain's part of C12: calls are the results of its hooks so far and
\* handlers is the list it was given.
ChainInOrder(chain, calls, handlers) ==
    LET inv == InvokedOf(chain)
        pending == { h \in running : h.chain = chain }
    IN /\ \A i \in DOMAIN inv : inv[i].hook = i
       /\ Len(inv) <= HookCount(handlers)
       /\ Len(inv) = Len(calls) + Cardinality(pending)
       /\ \A i \in DOMAIN calls :
              calls[i] \in {"throw", "x", "y"} => Len(inv) = i

\* C12: within a chain the hooks are invoked in registration order and one
\* at a time: the k-th invocation is that of hook k, made when the k - 1
\* hooks before it have completed; at most one hook is in progress; no hook
\* is invoked twice, and none once the chain has stopped (a hook threw, or
\* returned the value the chain returns).  A list that is absent or empty
\* invokes nothing and yields no result: the handler goes on past it.
C12_HooksInOrderOneAtATime ==
    /\ Cardinality(running) <= 1
    /\ ChainInOrder("before", beforeCalls, beforeError)
    /\ ChainInOrder("after", afterCalls, afterError)
    /\ pc # "before" => \A h \in running : h.chain # "before"
    /\ pc # "after" => \A h \in running : h.chain # "after"
    /\ (HookCount(beforeError) = 0 /\ pc = "done") => requestInfo # "none"
    /\ (HookCount(afterError) = 0 /\ pc = "done" /\ result # Thrown("TypeError")
        /\ requestInfo # "none" /\ ~isRedirectFoundError(error)) =>
           statusCalls # <<>>

C12_Witness ==
    /\ invoked = <<Hook("before", 1), Hook("before", 2),
                   Hook("after", 1), Hook("after", 2)>>
    /\ running = {Hook("after", 2)}
    /\ beforeCalls = <<"false", "null">>
    /\ afterCalls = <<"undefined">>

\* The stage of the handler an effect belongs to.
Stage(label) ==
    CASE label = "before-hook" -> 1
      [] label = "log" -> 2
      [] label = "after-hook" -> 3
      [] label = "status" -> 4
      [] label = "fetch" -> 5
      [] label = "render" -> 6
      [] label \in {"rendered-log", "warn"} -> 7
      [] label \in {"header", "redirect"} -> 8
      [] OTHER -> 9

\* C13: the effects of an invocation occur in the order of the stages:
\* before-hook invocations, then the log record, then after-hook
\* invocations, then reply.status, then the manifest fetch and the render,
\* then the headers and the body; no effect of a later stage precedes one of
\* an earlier stage, and the log record and reply.status occur at most once.
C13_EffectsInStageOrder ==
    /\ \A i, j \in DOMAIN trace :
           i < j => Stage(trace[i]) <= Stage(trace[j])
    /\ Len(Only({"log"})) <= 1
    /\ Len(Only({"status"})) <= 1
    /\ Len(Only({"return", "throw"})) = IF pc = "done" THEN 1 ELSE 0

C13_Witness ==
    trace = <<"before-hook", "before-hook", "log", "after-hook", "status",
              "fetch", "render", "rendered-log", "header", "header",
              "header", "return">>

\* The records of log[logLevel] (line 146) emitted so far.
ClassificationRecords ==
    SelectSeq(log, LAMBDA rec : rec.note # "none")

\* C14: for every non-redirect error whose before-hooks neither return a
\* defined value nor throw, exactly one classification record is emitted,
\* and it is emitted before any after-hook is invoked; this for every error
\* shape, a generic error with statusCode >= 400 and no code included.
C14_OneClassificationRecord ==
    ~isRedirectFoundError(error) =>
        /\ InvokedOf("after") # <<>> => Len(ClassificationRecords) = 1
        /\ (/\ pc = "done"
            /\ NoThrow(beforeCalls)
            /\ NoDefinedResult(beforeCalls)) =>
               Len(ClassificationRecords) = 1

\* C15: when the handler ends by throwing, what it throws is a hook's
\* exception or the original error, never an error of its own; and when it
\* is the original error, the classification record has been emitted and
\* reply.status has been called with the classified httpStatus.
C15_ThrowsHookExceptionOrOriginal ==
    result.kind = "thrown" =>
        /\ result.value \in {"hookException", "error"}
        /\ result.value = "error" =>
               /\ Len(ClassificationRecords) = 1
               /\ statusCalls = <<Classify(error).httpStatus>>

\* The hooks of this chain that have completed let the chain go on.
ChainWentOn(calls) ==
    \A i \in DOMAIN calls : calls[i] # "throw" /\ ~ChainStops(calls[i])

\* Both hook chains ran to their end without returning a result or throwing.
BothChainsPassed ==
    /\ Len(beforeCalls) = HookCount(beforeError)
    /\ Len(afterCalls) = HookCount(afterError)
    /\ ChainWentOn(beforeCalls)
    /\ ChainWentOn(afterCalls)

\* The records of log.info (line 190) and of log.warn (line 201).
RenderedRecords == SelectSeq(log, LAMBDA rec : rec.event = RenderedLog.event)
FailedRecords ==
    SelectSeq(log, LAMBDA rec : rec.event = FailedLog("fetchFailure").event)

\* C16: fetchWebpackStats and the fallback render are invoked at most once
\* per invocation, and only when a fallback component was resolved, the
\* error is not a redirect, and neither hook chain ended the handler by a
\* result or a throw.  With no fallback component they are never invoked and
\* neither the rendered record nor the failed record is logged.  The two
\* records are never both logged.
C16_FallbackAttemptedAtMostOnce ==
    /\ fetchCalls <= 1
    /\ renderCalls <= 1
    /\ renderCalls <= fetchCalls
    /\ fetchCalls > 0 =>
           /\ RootErrorBoundary = "component"
           /\ ~isRedirectFoundError(error)
           /\ BothChainsPassed
    /\ RootErrorBoundary = "null" =>
           /\ fetchCalls = 0
           /\ renderCalls = 0
           /\ RenderedRecords = <<>>
           /\ FailedRecords = <<>>
    /\ Len(RenderedRecords) + Len(FailedRecords) <= 1
    /\ Len(RenderedRecords) + Len(FailedRecords) <= fetchCalls

\* An invocation whose hooks of both chains all passed, and that fetched the
\* stats and rendered the fallback once.
C16_Witness ==
    /\ pc = "done"
    /\ fetchCalls = 1
    /\ renderCalls = 1
    /\ beforeCalls # <<>>
    /\ afterCalls # <<>>
    /\ Len(RenderedRecords) + Len(FailedRecords) = 1

C18_StatusAtMostOnce ==
    /\ Len(statusCalls) <= 1
    /\ statusCalls # <<>> =>
           /\ statusCalls[1] = Classify(error).httpStatus
           /\ statusCalls[1] = httpStatus
           /\ ~isRedirectFoundError(error)
           /\ BothChainsPassed
           /\ Len(ClassificationRecords) = 1
    /\ (\/ HookResultReturned
        \/ result = HookThrown
        \/ isRedirectFoundError(error)) => statusCalls = <<>>

\* reply.status has been called, once, in an invocation with hooks in both
\* chains.
C18_Witness ==
    /\ Len(statusCalls) = 1
    /\ beforeCalls # <<>>
    /\ afterCalls # <<>>
    /\ pc = "done"

\* The renderer callbacks registered, none when the list is undefined.
RegisteredCallbacks ==
    IF rendererCallback.defined THEN DOMAIN rendererCallback.throws ELSE {}

\* The calls made to renderer callback i.
CallsTo(i) == SelectSeq(callbackCalls, LAMBDA c : c.cb = i)

\* C19: without customRender, whatever the renderer does (it invokes the
\* completion callback, it throws, or both), once rendering has finished
\* each registered renderer callback has been invoked exactly once, with no
\* argument when the renderer did not throw and with the thrown error when
\* it did; a callback that throws keeps no other callback from being
\* invoked; and the promise is resolved when the renderer did not throw and
\* rejected with the renderer's error when it did.
C19_CallbacksExactlyOnce ==
    (renderPc = "finished" /\ ~customRender) =>
        /\ \A i \in RegisteredCallbacks : Len(CallsTo(i)) = 1
        /\ IF RendererThrows(rendererBehaviour)
           THEN /\ \A i \in RegisteredCallbacks :
                      CallsTo(i) = <<[cb |-> i, arg |-> "renderErr"]>>
                /\ promise = [state |-> "rejected", reason |-> "renderErr"]
           ELSE /\ \A i \in RegisteredCallbacks :
                      CallsTo(i) = <<[cb |-> i, arg |-> "none"]>>
                /\ promise = [state |-> "resolved", reason |-> "none"]

\* C20: in every configuration, customRender supplied included, once the
\* renderer or customRender has finished the promise is settled: resolved
\* when rendering completed, rejected when rendering threw.
C20_PromiseSettles ==
    renderPc = "finished" =>
        /\ promise.state # "pending"
        /\ (customRender /\ ~customRenderThrows) =>
               promise.state = "resolved"
        /\ (customRender /\ customRenderThrows) =>
               promise.state = "rejected"

====
